---- MODULE Spec2Model ----
(***************************************************************************)
(* Gemini Music Critic (src/index.tsx): the input state, the submit        *)
(* control, the asynchronous submission handler and the two renderers.     *)
(*                                                                         *)
(* Strings are sequences of tokens.  A token is a piece of plain text, a   *)
(* piece of harmless markup or a piece of active markup (ScriptToken).     *)
(* A MIME type is the sequence of its characters.                          *)
(***************************************************************************)
EXTENDS Integers, Sequences, FiniteSets, TLC

VARIABLES
    activeTab,          \* let activeTab: 'upload' | 'lyrics'
    audioFile,          \* let audioFile: File | null
    fileInputFiles,     \* fileInput.files?.[0]
    lyricsInput,        \* lyricsInput.value
    uploadLyricsInput,  \* uploadLyricsInput.value
    submitDisabled,     \* submitButton.disabled
    loaderHidden,       \* loader.hidden
    ariaBusy,           \* resultContainer aria-busy
    resultText,         \* content of resultText (innerHTML / textContent)
    summaryHidden,      \* scoreSummaryContainer.hidden
    summaryHtml,        \* scoreSummaryContainer.innerHTML
    subs,               \* the invocations of handleSubmit, in order of start
    lastDone            \* how the invocation that returned last ended:
                        \* "invalid-input" (the throw of line 439), "error"
                        \* (the outer catch otherwise), "undecodable" (trim or
                        \* JSON.parse threw), "render-failed", "rendered"

vars == <<activeTab, audioFile, fileInputFiles, lyricsInput, uploadLyricsInput,
          submitDisabled, loaderHidden, ariaBusy, resultText, summaryHidden,
          summaryHtml, subs, lastDone>>

inputVars == <<activeTab, audioFile, fileInputFiles, lyricsInput, uploadLyricsInput>>
displayVars == <<resultText, summaryHidden, summaryHtml>>

-----------------------------------------------------------------------------
(* Bounds *)

\* number of clicks on the submit control in one behaviour
MaxSubs == 2

-----------------------------------------------------------------------------
(* Constants of the program *)

MAX_FILE_SIZE_MB == 10
MAX_FILE_SIZE_BYTES == MAX_FILE_SIZE_MB * 1024 * 1024

-----------------------------------------------------------------------------
(* Values *)

\* null / undefined for an optional object, and an object that is present
Null == <<>>
Some(x) == <<x>>
Present(o) == o # Null
Get(o) == o[1]

\* a string-valued property that is missing from the decoded object
Undefined == <<"#undefined">>
\* JavaScript truthiness of a string-valued property
Truthy(s) == s # <<>> /\ s # Undefined

NoFile == [name |-> "", size |-> 0, type |-> <<>>]

AudioMpeg == <<"a", "u", "d", "i", "o", "/", "m", "p", "e", "g">>
ImagePng == <<"i", "m", "a", "g", "e", "/", "p", "n", "g">>
AudioPrefix == <<"a", "u", "d", "i", "o", "/">>

\* exactly at the limit
FileOk == [name |-> "song.mp3", size |-> MAX_FILE_SIZE_BYTES, type |-> AudioMpeg]
\* 11 MiB of audio
FileBig == [name |-> "long.mp3", size |-> 11 * 1024 * 1024, type |-> AudioMpeg]
\* 3 MiB, not audio
FileImg == [name |-> "cover.png", size |-> 3 * 1024 * 1024, type |-> ImagePng]

Files == {FileOk, FileBig, FileImg}

\* what the user can have in a lyrics field
LyricsTexts == {<<>>, <<" ">>, <<"w">>}
UploadLyricsTexts == {<<>>, <<" ">>, <<"w", " ">>}

\* String.prototype.startsWith
StartsWith(s, p) == Len(s) >= Len(p) /\ SubSeq(s, 1, Len(p)) = p

IsSpace(ch) == ch = " "

RECURSIVE TrimStart(_)
TrimStart(s) ==
    IF s = <<>> THEN <<>>
    ELSE IF IsSpace(Head(s)) THEN TrimStart(Tail(s)) ELSE s

RECURSIVE TrimEnd(_)
TrimEnd(s) ==
    IF s = <<>> THEN <<>>
    ELSE IF IsSpace(s[Len(s)]) THEN TrimEnd(SubSeq(s, 1, Len(s) - 1)) ELSE s

\* String.prototype.trim
Trim(s) == TrimEnd(TrimStart(s))

-----------------------------------------------------------------------------
(* Markup *)

\* a piece of active markup, which DOMPurify removes
ScriptToken == "<script>alert(1)</script>"
ActiveMarkup == {ScriptToken}

\* a piece of markdown, and what marked makes of it
MarkdownToken == "*deep*"
MarkedToken(t) == IF t = MarkdownToken THEN "<em>deep</em>" ELSE t

\* a template literal's ${...} of a string-valued property
Interpolate(s) == IF s = Undefined THEN <<"undefined">> ELSE s

\* One piece of assembled markup: its element, the text and the numbers put
\* into it, and whether it carries a value of the response that has not been
\* through DOMPurify.sanitize.
Fragment(tag, txt, nums, unsanitized) ==
    [tag |-> tag, txt |-> txt, nums |-> nums, unsanitized |-> unsanitized]

\* markup the program itself writes
Static(tag, text) == Fragment(tag, <<text>>, <<>>, FALSE)

\* DOMPurify.sanitize of a string: active markup is removed; a value that is
\* no string comes back as the empty string
SanitizeText(s) ==
    IF s = Undefined THEN <<>>
    ELSE SelectSeq(s, LAMBDA t : t \notin ActiveMarkup)

\* DOMPurify.sanitize of assembled markup (html is one string, assembled
\* before the call: h is bound to its value once)
SanitizeHtml(html) ==
    CHOOSE clean \in {[i \in DOMAIN h |->
                          [h[i] EXCEPT !.txt = SanitizeText(@),
                                       !.unsanitized = FALSE]] : h \in {html}} :
        TRUE

\* marked.parse throws on input that is no string
MarkedThrows(s) == s = Undefined

\* marked.parse: markdown becomes markup, raw markup passes through
MarkedParse(s) ==
    Fragment("markdown", [i \in DOMAIN s |-> MarkedToken(s[i])], <<>>, TRUE)

PlaceholderText == <<Static("text", "Your music critique will appear here.")>>
GenericErrorText ==
    <<Static("text", "An error occurred while analyzing the song.")>>
ParseErrorText ==
    <<Static("text", "An error occurred while parsing the AI response.")>>

InstrumentalNotice ==
    Static("p", "Instrumental track detected. Lyrical analysis has been skipped.")

-----------------------------------------------------------------------------
(* Decoded responses *)

Entry(category, score, maxScore, justification) ==
    [category |-> category, score |-> score, maxScore |-> maxScore,
     justification |-> justification]

EntryTheme == Entry(<<"Theme and Concept">>, 7, 10, <<MarkdownToken>>)
EntryImagery == Entry(<<"Imagery", ScriptToken>>, 12, 15, <<"vivid">>)
\* an entry without its justification
EntryBad == Entry(<<"Voice">>, 5, 8, Undefined)

Lyrical(scorecard, subtotal, penalties) ==
    [scorecard |-> scorecard, subtotal |-> subtotal, penalties |-> penalties,
     finalScore |-> subtotal - penalties,
     scoreLowerBound |-> subtotal - penalties - 3,
     scoreUpperBound |-> subtotal - penalties + 3,
     interpretation |-> <<"Weak", ScriptToken>>,
     areasForImprovement |-> <<MarkdownToken>>]

Musical ==
    [instrumentationAndArrangement |-> <<"guitars">>,
     productionAndMix |-> <<MarkdownToken, ScriptToken>>,
     compositionAndStructure |-> <<>>,
     overallImpression |-> <<"solid">>]

Detection(isDetected) ==
    [isDetected |-> isDetected, justification |-> <<"sterile", ScriptToken>>]

Critique(isInstrumental, aiMusic, aiLyrics, musical, lyrical) ==
    [kind |-> "object", isInstrumental |-> isInstrumental,
     aiGeneratedMusic |-> aiMusic, aiGeneratedLyrics |-> aiLyrics,
     musicalAnalysis |-> musical, lyricalAnalysis |-> lyrical]

\* audio with vocals: both analyses, two scorecard entries, penalties
CritVocal ==
    Critique(FALSE, Some(Detection(TRUE)), Null, Some(Musical),
             Some(Lyrical(Some(<<EntryTheme, EntryImagery>>), 19, 5)))
\* an instrumental
CritInstrumental == Critique(TRUE, Null, Null, Some(Musical), Null)
\* an instrumental that carries a lyrical analysis all the same
CritInstrumentalLyrics ==
    Critique(TRUE, Null, Null, Some(Musical),
             Some(Lyrical(Some(<<EntryImagery>>), 12, 0)))
\* lyrics only: no musical analysis, one entry, no penalties
CritLyricsOnly ==
    Critique(FALSE, Null, Some(Detection(TRUE)), Null,
             Some(Lyrical(Some(<<EntryTheme>>), 7, 0)))
\* a lyrical analysis without its scorecard
CritNoScorecard ==
    Critique(FALSE, Some(Detection(FALSE)), Null, Some(Musical),
             Some(Lyrical(Null, 0, 0)))
\* a scorecard entry without its justification
CritBadEntry ==
    Critique(FALSE, Null, Null, Null, Some(Lyrical(Some(<<EntryBad>>), 5, 0)))
\* the JSON text "null"
CritNull ==
    [kind |-> "null", isInstrumental |-> FALSE, aiGeneratedMusic |-> Null,
     aiGeneratedLyrics |-> Null, musicalAnalysis |-> Null,
     lyricalAnalysis |-> Null]

\* the decoded values that are objects
CritiqueObjects ==
    {CritVocal, CritInstrumental, CritInstrumentalLyrics, CritLyricsOnly,
     CritNoScorecard, CritBadEntry}

NoCritique ==
    [kind |-> "none", isInstrumental |-> FALSE, aiGeneratedMusic |-> Null,
     aiGeneratedLyrics |-> Null, musicalAnalysis |-> Null,
     lyricalAnalysis |-> Null]

\* response.text: missing, text that is no JSON, or the JSON text of a value
TextUndefined == [form |-> "undefined", value |-> NoCritique]
TextNotJson == [form |-> "{not json", value |-> NoCritique]
JsonText(v) == [form |-> "json", value |-> v]

ResponseTexts ==
    {TextUndefined, TextNotJson} \cup {JsonText(v) : v \in CritiqueObjects \cup {CritNull}}

\* response.text.trim() throws when there is no text
TextTrimThrows(text) == text.form = "undefined"
\* a parser that accepts any text
JsonParseThrows_Never(text) == FALSE

\* JSON.parse throws on text that is no JSON
JsonParseThrows(text) == text.form # "json"
JsonParse(text) == text.value

-----------------------------------------------------------------------------
(* The renderers *)

\* critiqueData.aiGeneratedMusic?.isDetected === true
IsDetected(o) == Present(o) /\ Get(o).isDetected = TRUE

\* the banner above an analysis, by the detection result
DetectionBanner(o, detected, neutral) ==
    IF IsDetected(o)
    THEN <<Static("div.ai-detection-summary", detected),
           Fragment("p", SanitizeText(Get(o).justification), <<>>, FALSE)>>
    ELSE <<Static("div.ai-detection-summary.neutral", neutral)>>

\* one sub-field of the musical analysis, rendered only if it is not empty
MusicalField(heading, value) ==
    IF Truthy(value) THEN <<Static("h3", heading), MarkedParse(value)>> ELSE <<>>

MusicalSection(c) ==
    IF Present(c.musicalAnalysis)
    THEN LET analysis == Get(c.musicalAnalysis) IN
         <<Static("h2", "Musical Analysis")>>
         \o DetectionBanner(c.aiGeneratedMusic, "AI Music Detected:",
                            "AI Music Detection:")
         \o MusicalField("Instrumentation & Arrangement",
                         analysis.instrumentationAndArrangement)
         \o MusicalField("Production & Mix", analysis.productionAndMix)
         \o MusicalField("Composition & Structure",
                         analysis.compositionAndStructure)
         \o MusicalField("Overall Impression", analysis.overallImpression)
    ELSE <<>>

\* the heading and the converted justification of every scorecard entry
RECURSIVE ScorecardMarkup(_)
ScorecardMarkup(scorecard) ==
    IF scorecard = <<>> THEN <<>>
    ELSE LET item == Head(scorecard) IN
         <<Fragment("h4", Interpolate(item.category),
                    <<item.score, item.maxScore>>, TRUE),
           MarkedParse(item.justification)>>
         \o ScorecardMarkup(Tail(scorecard))

FinalScoreBlock(lyricalData) ==
    <<Static("h3", "Final Score & Interpretation"),
      Fragment("p.subtotal", <<>>, <<lyricalData.subtotal>>, TRUE)>>
    \o (IF lyricalData.penalties > 0
        THEN <<Fragment("p.penalties", <<>>, <<lyricalData.penalties>>, TRUE)>>
        ELSE <<>>)
    \o <<Fragment("p.final-score", <<>>, <<lyricalData.finalScore>>, TRUE),
         Fragment("p.confidence-interval", <<>>,
                  <<lyricalData.scoreLowerBound, lyricalData.scoreUpperBound>>,
                  TRUE),
         Fragment("blockquote", SanitizeText(lyricalData.interpretation),
                  <<>>, FALSE)>>

LyricalSection(c) ==
    IF c.isInstrumental
    THEN <<Static("h2", "Lyrical Analysis"), InstrumentalNotice>>
    ELSE IF Present(c.lyricalAnalysis)
    THEN LET lyricalData == Get(c.lyricalAnalysis) IN
         <<Static("h2", "Lyrical Analysis")>>
         \o DetectionBanner(c.aiGeneratedLyrics, "AI Lyrics Detected:",
                            "AI Lyrics Detection:")
         \o (IF Present(lyricalData.scorecard)
             THEN ScorecardMarkup(Get(lyricalData.scorecard))
             ELSE <<>>)
         \o FinalScoreBlock(lyricalData)
         \o (IF Truthy(lyricalData.areasForImprovement)
             THEN <<Static("h3", "Areas for Improvement"),
                    MarkedParse(lyricalData.areasForImprovement)>>
             ELSE <<>>)
    ELSE <<>>

\* renderCritique rejects: a property is read of null, or marked.parse is
\* handed the missing justification of a scorecard entry
RenderCritiqueThrows(c) ==
    \/ c.kind # "object"
    \/ /\ ~c.isInstrumental
       /\ Present(c.lyricalAnalysis)
       /\ Present(Get(c.lyricalAnalysis).scorecard)
       /\ \E i \in DOMAIN Get(Get(c.lyricalAnalysis).scorecard) :
              MarkedThrows(Get(Get(c.lyricalAnalysis).scorecard)[i].justification)

\* a renderCritique without the final DOMPurify.sanitize
renderCritique_Unsanitized(c) == MusicalSection(c) \o LyricalSection(c)

\* what renderCritique assigns to resultText.innerHTML
renderCritique(c) == SanitizeHtml(MusicalSection(c) \o LyricalSection(c))

\* a loop that stops after the first entry
SummaryRows_OnlyFirst(scorecard) ==
    IF scorecard = <<>> THEN <<>>
    ELSE <<Fragment("span.category", SanitizeText(Head(scorecard).category),
                    <<>>, FALSE),
           Fragment("span.score", <<>>,
                    <<Head(scorecard).score, Head(scorecard).maxScore>>, TRUE)>>

RECURSIVE SummaryRows(_)
SummaryRows(scorecard) ==
    IF scorecard = <<>> THEN <<>>
    ELSE LET item == Head(scorecard) IN
         <<Fragment("span.category", SanitizeText(item.category), <<>>, FALSE),
           Fragment("span.score", <<>>, <<item.score, item.maxScore>>, TRUE)>>
         \o SummaryRows(Tail(scorecard))

\* renderScoreSummary returns early, having hidden the container
SummaryHides(c) ==
    \/ c.isInstrumental
    \/ ~Present(c.lyricalAnalysis)
    \/ ~Present(Get(c.lyricalAnalysis).scorecard)

\* what renderScoreSummary assigns to scoreSummaryContainer.innerHTML
SummaryMarkup(c) ==
    LET lyricalData == Get(c.lyricalAnalysis) IN
    <<Static("h3", "Score Summary")>>
    \o SummaryRows(Get(lyricalData.scorecard))
    \o <<Static("div.score-summary-divider", ""),
         Static("span", "Final Score"),
         Fragment("span.total", <<>>, <<lyricalData.finalScore>>, TRUE)>>

\* renderScoreSummary: the container's hidden flag and markup after the call
renderScoreSummary(c, html) ==
    IF SummaryHides(c)
    THEN [hidden |-> TRUE, html |-> html]
    ELSE [hidden |-> FALSE, html |-> SummaryMarkup(c)]

-----------------------------------------------------------------------------
(* The request *)

TextPart(text) == [kind |-> "text", text |-> text, mimeType |-> <<>>, data |-> <<>>]
InlineDataPart(mimeType, data) ==
    [kind |-> "inlineData", text |-> <<>>, mimeType |-> mimeType, data |-> data]

\* fileToBase64: the file's content, encoded
Base64(file) == <<"base64", file.name>>

PromptWithLyrics ==
    "Critique this song. The user has provided the following lyrics to consider in your analysis:"
PromptDefault ==
    "Critique this song. First, determine if it is an instrumental."
PromptLyricsOnly ==
    "Critique the following song lyrics. You MUST set 'isInstrumental' to false, and 'musicalAnalysis' and 'aiGeneratedMusic' to null. Lyrics:"

\* contents whose text never holds the user's lyrics
UploadContents_NoLyrics(userLyrics, mimeType, base64Audio) ==
    <<TextPart(<<PromptDefault>>), InlineDataPart(mimeType, base64Audio)>>

\* contents.parts of a submission with audio
UploadContents(userLyrics, mimeType, base64Audio) ==
    <<TextPart(IF userLyrics # <<>>
               THEN <<PromptWithLyrics>> \o userLyrics
               ELSE <<PromptDefault>>),
      InlineDataPart(mimeType, base64Audio)>>

\* contents.parts of a lyrics-only submission
LyricsContents(lyrics) == <<TextPart(<<PromptLyricsOnly>> \o lyrics)>>

NoContents == <<>>

-----------------------------------------------------------------------------
(* State *)

Tabs == {"upload", "lyrics"}
SubIds == 1 .. MaxSubs

\* an invocation of handleSubmit: where it is suspended and its locals
\* (file: the file handed to fileToBase64, none in a lyrics-only submission)
\* (atClick: the contents the inputs determine when submit is clicked, kept
\* while the file is read)
Sub(pc, file, atClick, contents, critique) ==
    [pc |-> pc, file |-> file, atClick |-> atClick, contents |-> contents,
     critique |-> critique]

IdleSub == Sub("idle", NoFile, NoContents, NoContents, NoCritique)
DoneSub == Sub("done", NoFile, NoContents, NoContents, NoCritique)

InFlight(i) == subs[i].pc \in {"encode", "call", "render"}

NothingDone == "none"

Init ==
    /\ activeTab = "upload"
    /\ audioFile = NoFile
    /\ fileInputFiles = NoFile
    /\ lyricsInput = <<>>
    /\ uploadLyricsInput = <<>>
    /\ submitDisabled = TRUE
    /\ loaderHidden = TRUE
    /\ ariaBusy = FALSE
    /\ resultText = PlaceholderText
    /\ summaryHidden = TRUE
    /\ summaryHtml = <<>>
    /\ subs = [i \in SubIds |-> IdleSub]
    /\ lastDone = NothingDone

-----------------------------------------------------------------------------
(* The submit control and the input events *)

\* updateSubmitButtonState: the value it gives submitButton.disabled
updateSubmitButtonState(tab, lyricsValue, file) ==
    ~(\/ tab = "lyrics" /\ Trim(lyricsValue) # <<>>
      \/ tab = "upload" /\ file # NoFile)

handleTabClick(tab) ==
    /\ activeTab' = tab
    /\ submitDisabled' = updateSubmitButtonState(tab, lyricsInput, fileInputFiles)
    /\ UNCHANGED <<audioFile, fileInputFiles, lyricsInput, uploadLyricsInput,
                   loaderHidden, ariaBusy, displayVars, subs, lastDone>>

\* a validation without the size check
FileAccepted_NoSizeCheck(file) == StartsWith(file.type, AudioPrefix)

\* the two checks of handleFileSelect
FileAccepted(file) ==
    /\ ~(file.size > MAX_FILE_SIZE_BYTES)
    /\ StartsWith(file.type, AudioPrefix)

\* handleFileSelect with fileInput.files[0] = files at the call: the staged
\* file, fileInput.files[0] and submitButton.disabled when it returns
handleFileSelect(file, files) ==
    LET reset == file = NoFile \/ ~FileAccepted(file)
        filesAfter == IF reset THEN NoFile ELSE files
    IN  [audioFile |-> IF reset THEN NoFile ELSE file,
         files |-> filesAfter,
         disabled |-> updateSubmitButtonState(activeTab, lyricsInput, filesAfter)]

\* change event of the file picker: the browser has put the chosen file (or
\* none, when the dialog is cancelled) into fileInput.files
handleFileChange(file) ==
    /\ activeTab = "upload"
    /\ LET r == handleFileSelect(file, file) IN
       /\ audioFile' = r.audioFile
       /\ fileInputFiles' = r.files
       /\ submitDisabled' = r.disabled
    /\ UNCHANGED <<activeTab, lyricsInput, uploadLyricsInput, loaderHidden,
                   ariaBusy, displayVars, subs, lastDone>>

\* drop on the upload area: handleFileSelect, then fileInput.files = files
handleDrop(file) ==
    /\ activeTab = "upload"
    /\ LET r == handleFileSelect(file, fileInputFiles) IN
       /\ audioFile' = r.audioFile
       /\ submitDisabled' = r.disabled
    /\ fileInputFiles' = file
    /\ UNCHANGED <<activeTab, lyricsInput, uploadLyricsInput, loaderHidden,
                   ariaBusy, displayVars, subs, lastDone>>

\* input event of the lyrics field
handleLyricsInput(value) ==
    /\ activeTab = "lyrics"
    /\ value # lyricsInput
    /\ lyricsInput' = value
    /\ submitDisabled' = updateSubmitButtonState(activeTab, value, fileInputFiles)
    /\ UNCHANGED <<activeTab, audioFile, fileInputFiles, uploadLyricsInput,
                   loaderHidden, ariaBusy, displayVars, subs, lastDone>>

\* input event of the lyrics field of the upload panel
handleUploadLyricsInput(value) ==
    /\ activeTab = "upload"
    /\ value # uploadLyricsInput
    /\ uploadLyricsInput' = value
    /\ submitDisabled' =
           updateSubmitButtonState(activeTab, lyricsInput, fileInputFiles)
    /\ UNCHANGED <<activeTab, audioFile, fileInputFiles, lyricsInput,
                   loaderHidden, ariaBusy, displayVars, subs, lastDone>>

-----------------------------------------------------------------------------
(* handleSubmit *)

\* a branch that does not look at the staged file
SubmitBranch_NoFileCheck(tab, file) ==
    IF tab = "upload" THEN "audio"
    ELSE IF tab = "lyrics" THEN "lyrics"
    ELSE "invalid"

\* the branch handleSubmit takes on its inputs
SubmitBranch(tab, file) ==
    IF tab = "upload" /\ file # NoFile THEN "audio"
    ELSE IF tab = "lyrics" THEN "lyrics"
    ELSE "invalid"

\* a finally block that leaves the loader as it is
Finally_LoaderLeft ==
    /\ loaderHidden' = loaderHidden
    /\ ariaBusy' = FALSE
    /\ submitDisabled' =
           updateSubmitButtonState(activeTab, lyricsInput, fileInputFiles)

\* the finally block
Finally ==
    /\ loaderHidden' = TRUE
    /\ ariaBusy' = FALSE
    /\ submitDisabled' =
           updateSubmitButtonState(activeTab, lyricsInput, fileInputFiles)

\* invocation i returns: its last writes to the display, then the finally block
Return(i, outcome, text, hidden, html) ==
    /\ subs' = [subs EXCEPT ![i] = DoneSub]
    /\ lastDone' = outcome
    /\ resultText' = text
    /\ summaryHidden' = hidden
    /\ summaryHtml' = html
    /\ Finally
    /\ UNCHANGED inputVars

\* invocation i suspends at its next await
Suspend(i, sub) ==
    /\ subs' = [subs EXCEPT ![i] = sub]
    /\ UNCHANGED <<inputVars, lastDone>>

\* the outer catch block
CatchError(i, outcome) ==
    Return(i, outcome, GenericErrorText, summaryHidden, summaryHtml)

\* the inner catch block
CatchParseError(i, outcome) ==
    Return(i, outcome, ParseErrorText, summaryHidden, summaryHtml)

\* click on the submit control: handleSubmit runs up to its first await, or,
\* without valid input, to its end
handleSubmit(i) ==
    /\ ~submitDisabled
    /\ subs[i].pc = "idle"
    /\ \A j \in SubIds : j < i => subs[j].pc # "idle"
    /\ LET branch == SubmitBranch(activeTab, audioFile) IN
       \/ /\ branch = "audio"
          /\ Suspend(i, Sub("encode", audioFile,
                             UploadContents(Trim(uploadLyricsInput),
                                            audioFile.type, Base64(audioFile)),
                             NoContents, NoCritique))
          /\ submitDisabled' = TRUE
          /\ loaderHidden' = FALSE
          /\ ariaBusy' = TRUE
          /\ resultText' = PlaceholderText
          /\ summaryHidden' = TRUE
          /\ summaryHtml' = <<>>
       \/ /\ branch = "lyrics"
          /\ Suspend(i, Sub("call", NoFile, NoContents,
                             LyricsContents(lyricsInput), NoCritique))
          /\ submitDisabled' = TRUE
          /\ loaderHidden' = FALSE
          /\ ariaBusy' = TRUE
          /\ resultText' = PlaceholderText
          /\ summaryHidden' = TRUE
          /\ summaryHtml' = <<>>
       \/ /\ branch = "invalid"
          /\ Return(i, "invalid-input", GenericErrorText, TRUE, <<>>)

\* fileToBase64 resolves: the request is built from the staged file and the
\* lyrics field as they are now, and the remote call is issued
encodeResolved(i) ==
    /\ subs[i].pc = "encode"
    /\ IF audioFile = NoFile
       THEN CatchError(i, "error")
       ELSE /\ Suspend(i, Sub("call", subs[i].file, NoContents,
                              UploadContents(Trim(uploadLyricsInput), audioFile.type,
                                             Base64(subs[i].file)),
                              NoCritique))
            /\ UNCHANGED <<submitDisabled, loaderHidden, ariaBusy, displayVars>>

\* fileToBase64 rejects (reader.onerror)
encodeRejected(i) ==
    /\ subs[i].pc = "encode"
    /\ CatchError(i, "error")

\* generateContent rejects
callRejected(i) ==
    /\ subs[i].pc = "call"
    /\ CatchError(i, "error")

\* generateContent resolves with a response: the text is trimmed and parsed
\* and renderCritique is called
callResolved(i, text) ==
    /\ subs[i].pc = "call"
    /\ IF TextTrimThrows(text) THEN CatchParseError(i, "undecodable")
       ELSE IF JsonParseThrows(text) THEN CatchParseError(i, "undecodable")
       ELSE /\ Suspend(i, Sub("render", subs[i].file, NoContents, NoContents,
                              JsonParse(text)))
            /\ UNCHANGED <<submitDisabled, loaderHidden, ariaBusy, displayVars>>

\* renderCritique settles; when it resolved, renderScoreSummary runs
renderSettled(i) ==
    /\ subs[i].pc = "render"
    /\ LET critiqueData == subs[i].critique IN
       IF RenderCritiqueThrows(critiqueData)
       THEN CatchParseError(i, "render-failed")
       ELSE LET summary == renderScoreSummary(critiqueData, summaryHtml) IN
            Return(i, "rendered", renderCritique(critiqueData),
                   summary.hidden, summary.html)

-----------------------------------------------------------------------------
(* Specification *)

\* An invocation waits for renderCritique.  marked.parse is called without
\* the async option and returns a string, so the awaits of renderCritique and
\* the await of it settle in microtasks: the invocation resumes before the
\* event loop runs any other handler.
MicrotaskPending == \E i \in SubIds : subs[i].pc = "render"

\* the file reader or the remote call of invocation i settles
Settle(i) ==
    \/ encodeResolved(i)
    \/ encodeRejected(i)
    \/ callRejected(i)
    \/ \E text \in ResponseTexts : callResolved(i, text)

\* a suspended invocation resumes
Resume(i) ==
    \/ ~MicrotaskPending /\ Settle(i)
    \/ renderSettled(i)

\* one task of the event loop: a handler of a user's event, or the
\* continuation of a suspended invocation (Resume, one disjunct per await)
Next ==
    \/ \E tab \in Tabs : ~MicrotaskPending /\ handleTabClick(tab)
    \/ \E file \in Files \cup {NoFile} :
          ~MicrotaskPending /\ handleFileChange(file)
    \/ \E file \in Files : ~MicrotaskPending /\ handleDrop(file)
    \/ \E value \in LyricsTexts :
          ~MicrotaskPending /\ handleLyricsInput(value)
    \/ \E value \in UploadLyricsTexts :
          ~MicrotaskPending /\ handleUploadLyricsInput(value)
    \/ \E i \in SubIds : ~MicrotaskPending /\ handleSubmit(i)
    \/ \E i \in SubIds : ~MicrotaskPending /\ encodeResolved(i)
    \/ \E i \in SubIds : ~MicrotaskPending /\ encodeRejected(i)
    \/ \E i \in SubIds : ~MicrotaskPending /\ callRejected(i)
    \/ \E i \in SubIds, text \in ResponseTexts :
          ~MicrotaskPending /\ callResolved(i, text)
    \/ \E i \in SubIds : renderSettled(i)

Spec == Init /\ [][Next]_vars

\* every await settles: the file reader, the remote call and marked end
FairSpec == Spec /\ WF_vars(\E i \in SubIds : Resume(i))

TypeOK ==
    /\ activeTab \in Tabs
    /\ audioFile \in Files \cup {NoFile}
    /\ fileInputFiles \in Files \cup {NoFile}
    /\ lyricsInput \in LyricsTexts
    /\ uploadLyricsInput \in UploadLyricsTexts
    /\ submitDisabled \in BOOLEAN
    /\ loaderHidden \in BOOLEAN
    /\ ariaBusy \in BOOLEAN
    /\ summaryHidden \in BOOLEAN
    /\ \A i \in SubIds : subs[i].pc \in {"idle", "encode", "call", "render", "done"}

-----------------------------------------------------------------------------
(* Properties *)

InFlightSubs == {i \in SubIds : InFlight(i)}

\* C1: at most one submission is in flight at any time: while one is
\* suspended the submit control stays disabled, so no second one starts.
C1_AtMostOneInFlight == Cardinality(InFlightSubs) <= 1

\* the state the finally block leaves behind invocation i
CleanedUp(i) ==
    /\ subs[i].pc = "done"
    /\ loaderHidden
    /\ ~ariaBusy
    /\ submitDisabled =
           updateSubmitButtonState(activeTab, lyricsInput, fileInputFiles)

\* how far an invocation has come
Rank(pc) ==
    CASE pc = "idle" -> 0
      [] pc = "encode" -> 1
      [] pc = "call" -> 2
      [] pc = "render" -> 3
      [] pc = "done" -> 4

\* C2: every started submission, whatever its outcome, eventually runs the
\* cleanup step.  While a submission is suspended some suspended submission
\* can resume, and every step that touches a submission brings it nearer to
\* its return, so that every submission returns once the awaits settle; and
\* a submission returns with the loader hidden, aria-busy false and the
\* submit control's state recomputed.
C2_CleanupAlwaysRuns ==
    /\ [](InFlightSubs # {} => \E i \in InFlightSubs : ENABLED Resume(i))
    /\ [][\A i \in SubIds :
             /\ subs'[i] # subs[i] => Rank(subs'[i].pc) > Rank(subs[i].pc)
             /\ (subs[i].pc # "done" /\ subs'[i].pc = "done") => CleanedUp(i)']_vars

\* the same as a temporal property of FairSpec
EventuallyCleanedUp == \A i \in SubIds : InFlight(i) ~> CleanedUp(i)

\* a submission has gone through every await and cleaned up after a failure
C2_Witness ==
    /\ lastDone = "render-failed"
    /\ loaderHidden
    /\ ~ariaBusy

\* the active mode has no valid staged input
NoValidInput ==
    \/ activeTab = "upload" /\ audioFile = NoFile
    \/ activeTab = "lyrics" /\ Trim(lyricsInput) = <<>>

\* C3: a submission whose active mode has no valid staged input fails as
\* invalid input and never issues the remote call: it returns in the step
\* that started it, with the failure message on display.  In lyrics mode no
\* such submission starts: the submit control is disabled while the lyrics
\* text is empty or whitespace.
C3_InvalidInputNeverCalls ==
    [][\A i \in SubIds :
          (subs[i].pc = "idle" /\ subs'[i].pc # "idle" /\ NoValidInput)
          => /\ subs'[i].pc = "done"
             /\ lastDone' = "invalid-input"
             /\ resultText' = GenericErrorText
             /\ activeTab = "upload"]_vars

\* a submission in upload mode without a staged file has failed
C3_Witness ==
    /\ lastDone = "invalid-input"
    /\ activeTab = "upload"
    /\ audioFile = NoFile
    /\ resultText = GenericErrorText

\* C4: whenever the submit control is enabled in upload mode a validated
\* staged file exists; after a rejected file it stays disabled until a valid
\* file is staged.
C4_EnabledImpliesStagedFile ==
    (activeTab = "upload" /\ ~submitDisabled) => audioFile # NoFile

\* the file input constraints: at most 10 MiB, MIME type audio/...
ValidAudio(file) ==
    /\ file.size <= 10 * 1024 * 1024
    /\ Len(file.type) >= 6
    /\ SubSeq(file.type, 1, 6) = <<"a", "u", "d", "i", "o", "/">>

\* the media attachments of contents.parts
Attachments(contents) ==
    {contents[k] : k \in {n \in DOMAIN contents : contents[n].kind = "inlineData"}}

\* C5: a staged file always is at most 10 MiB of type audio/..., so is the
\* file a submission encodes and the attachment of a request; a file that
\* fails validation leaves the staged file empty.
C5_StagedFileValid ==
    /\ [](/\ audioFile # NoFile => ValidAudio(audioFile)
          /\ \A i \in SubIds :
                /\ subs[i].pc = "encode" => ValidAudio(subs[i].file)
                /\ \A part \in Attachments(subs[i].contents) :
                       StartsWith(part.mimeType, AudioPrefix))
    /\ [][\A file \in Files :
             (~ValidAudio(file) /\ (handleFileChange(file) \/ handleDrop(file)))
             => audioFile' = NoFile]_vars

\* a request with its attachment is with the remote service
C5_Witness ==
    \E i \in SubIds :
        /\ subs[i].pc = "call"
        /\ Attachments(subs[i].contents) # {}
        /\ audioFile = FileOk

FailureTexts == {GenericErrorText, ParseErrorText}
Failures == {"invalid-input", "error", "undecodable", "render-failed"}

\* C6: when a submission ends in failure the display shows only the failure
\* message: no critique content of an earlier successful submission remains
\* in the result area or in the score-summary area.
C6_FailureShowsOnlyMessage ==
    lastDone \in Failures =>
        /\ resultText \in FailureTexts \cup {PlaceholderText}
        /\ summaryHidden
        /\ summaryHtml = <<>>

Range(seq) == {seq[k] : k \in DOMAIN seq}

ScorecardTags == {"h4", "p.subtotal", "p.penalties", "p.final-score",
                  "p.confidence-interval", "blockquote"}

\* C8: for every critique with isInstrumental true, with or without a
\* lyricalAnalysis, the full-document view contains the instrumental notice
\* and no scorecard entry or final-score block, and the score-summary view is
\* hidden and empty.
C8_InstrumentalView ==
    [][\A i \in SubIds :
          (/\ subs[i].pc = "render"
           /\ subs[i].critique.kind = "object"
           /\ subs[i].critique.isInstrumental
           /\ subs'[i].pc = "done")
          => /\ InstrumentalNotice \in Range(resultText')
             /\ \A f \in Range(resultText') : f.tag \notin ScorecardTags
             /\ summaryHidden'
             /\ summaryHtml' = <<>>]_vars

\* the rows of the score-summary view: category and score fragments in pairs
RowCategories(html) == SelectSeq(html, LAMBDA f : f.tag = "span.category")
RowScores(html) == SelectSeq(html, LAMBDA f : f.tag = "span.score")
TotalRows(html) == SelectSeq(html, LAMBDA f : f.tag = "span.total")

\* invocation i returns from rendering a critique that is not instrumental
\* and has a scorecard
RendersScorecard(i) ==
    /\ subs[i].pc = "render"
    /\ subs'[i].pc = "done"
    /\ lastDone' = "rendered"
    /\ ~subs[i].critique.isInstrumental
    /\ Present(subs[i].critique.lyricalAnalysis)
    /\ Present(Get(subs[i].critique.lyricalAnalysis).scorecard)

\* the summary view html shows the scorecard, given how a category is shown
SummaryShows(html, lyricalData, Shown(_)) ==
    LET scorecard == Get(lyricalData.scorecard)
        n == Len(scorecard)
    IN  /\ Len(html) = 2 * n + 4
        /\ Len(RowCategories(html)) = n
        /\ Len(RowScores(html)) = n
        /\ \A k \in 1 .. n :
              /\ html[2 * k].tag = "span.category"
              /\ html[2 * k].txt = Shown(scorecard[k].category)
              /\ html[2 * k + 1].tag = "span.score"
              /\ html[2 * k + 1].nums = <<scorecard[k].score, scorecard[k].maxScore>>
        /\ Len(TotalRows(html)) = 1
        /\ html[Len(html)].tag = "span.total"
        /\ html[Len(html)].nums = <<lyricalData.finalScore>>

AsIs(s) == s

\* C9: for every non-instrumental critique with a scorecard the score-summary
\* view has exactly one row per scorecard entry, in array order, each showing
\* that entry's category and score / maxScore, followed by exactly one total
\* row showing finalScore.
C9_SummaryRows ==
    [][\A i \in SubIds :
          RendersScorecard(i)
          => /\ ~summaryHidden'
             /\ SummaryShows(summaryHtml', Get(subs[i].critique.lyricalAnalysis),
                             AsIs)]_vars

\* C9 as amended: each row shows the entry's category as DOMPurify.sanitize
\* returns it, which is the category itself when it holds no active markup.
C9_SummaryRowsSanitized ==
    [][\A i \in SubIds :
          RendersScorecard(i)
          => /\ ~summaryHidden'
             /\ SummaryShows(summaryHtml', Get(subs[i].critique.lyricalAnalysis),
                             SanitizeText)]_vars

\* the summary of a scorecard of two entries, one with active markup in its
\* category, is on display
C9_Witness ==
    /\ lastDone = "rendered"
    /\ ~summaryHidden
    /\ Len(RowCategories(summaryHtml)) = 2
    /\ RowCategories(summaryHtml)[2].txt = <<"Imagery">>

\* C10: no value of the response reaches resultText.innerHTML or
\* scoreSummaryContainer.innerHTML without having been sanitized.
C10_AllSanitized ==
    \A f \in Range(resultText) \cup Range(summaryHtml) : ~f.unsanitized

\* C10 as amended: every value written to resultText.innerHTML has been
\* sanitized, and so has every category written to
\* scoreSummaryContainer.innerHTML; score, maxScore and finalScore are written
\* there as they came.  No active markup reaches either.
C10_TextSanitized ==
    /\ \A f \in Range(resultText) : ~f.unsanitized
    /\ \A f \in Range(summaryHtml) :
          f.unsanitized <=> f.tag \in {"span.score", "span.total"}
    /\ \A f \in Range(resultText) \cup Range(summaryHtml) :
          /\ Range(f.txt) \cap ActiveMarkup = {}
          /\ f.tag \in {"span.score", "span.total"} => f.txt = <<>>

\* a critique whose text fields hold active markup is on display in both views
C10_Witness ==
    /\ lastDone = "rendered"
    /\ \E f \in Range(resultText) : f.tag = "blockquote" /\ f.txt = <<"Weak">>
    /\ \E f \in Range(resultText) : f.tag = "h4" /\ f.txt = <<"Imagery">>
    /\ \E f \in Range(summaryHtml) : f.tag = "span.category" /\ f.txt = <<"Imagery">>
    /\ \E f \in Range(summaryHtml) : f.tag = "span.score" /\ f.unsanitized

\* invocation i issues its remote call in this step
Sends(i) == subs[i].pc # "call" /\ subs'[i].pc = "call"

\* the branch a click takes follows the mode: upload mode with a staged file
\* goes on to read the file, lyrics mode issues the call at once
BranchByMode(i) ==
    subs[i].pc = "idle" /\ subs'[i].pc # "idle" =>
        /\ (activeTab = "upload" /\ audioFile # NoFile) <=> subs'[i].pc = "encode"
        /\ activeTab = "lyrics" <=> subs'[i].pc = "call"

\* the text part holds the user's lyrics after the instruction
EmbedsLyrics(part) ==
    /\ Head(part.text) = PromptWithLyrics
    /\ Tail(part.text) # <<>>

\* a request of one text part and one inline media part
AudioPayload(parts) ==
    /\ Len(parts) = 2
    /\ parts[1].kind = "text"
    /\ parts[2].kind = "inlineData"

\* a request of one text part, without media, of the lyrics-only instruction
\* and the literal lyrics
LyricsPayload(parts, lyrics) ==
    /\ Len(parts) = 1
    /\ parts[1].kind = "text"
    /\ Attachments(parts) = {}
    /\ parts[1].text = <<PromptLyricsOnly>> \o lyrics

\* C11: the request follows the input mode.  A submission in upload mode
\* with a staged file sends one text part and exactly one inline media part,
\* and the text holds the auxiliary lyrics iff the lyrics field is not empty;
\* a submission in lyrics mode sends one text part, no media, with the
\* lyrics-only instruction and the literal lyrics.
C11_PayloadByMode ==
    [][\A i \in SubIds :
         /\ BranchByMode(i)
         /\ (Sends(i) /\ subs[i].pc = "encode") =>
                /\ AudioPayload(subs'[i].contents)
                /\ EmbedsLyrics(subs'[i].contents[1]) <=> uploadLyricsInput # <<>>
         /\ (Sends(i) /\ subs[i].pc = "idle") =>
                LyricsPayload(subs'[i].contents, lyricsInput)]_vars

\* C11, amended: as above, but the text holds the auxiliary lyrics iff the
\* lyrics field is not empty once its surrounding whitespace is trimmed, and
\* it holds them trimmed; lyrics of whitespace alone give the request of a
\* submission without lyrics.
C11_PayloadByModeTrimmed ==
    [][\A i \in SubIds :
         /\ BranchByMode(i)
         /\ (Sends(i) /\ subs[i].pc = "encode") =>
                LET parts == subs'[i].contents IN
                /\ AudioPayload(parts)
                /\ EmbedsLyrics(parts[1]) <=> Trim(uploadLyricsInput) # <<>>
                /\ parts[1].text =
                       IF Trim(uploadLyricsInput) # <<>>
                       THEN <<PromptWithLyrics>> \o Trim(uploadLyricsInput)
                       ELSE <<PromptDefault>>
                /\ parts[2].mimeType = audioFile.type
                /\ parts[2].data = Base64(subs[i].file)
         /\ (Sends(i) /\ subs[i].pc = "idle") =>
                LyricsPayload(subs'[i].contents, lyricsInput)]_vars

\* a request with audio has gone out without lyrics in its text while the
\* lyrics field holds whitespace, and a lyrics-only request is out as well
C11_Witness ==
    /\ uploadLyricsInput = <<" ">>
    /\ \E i \in SubIds :
          /\ subs[i].pc = "call"
          /\ AudioPayload(subs[i].contents)
          /\ subs[i].contents[1].text = <<PromptDefault>>
    /\ \E i \in SubIds :
          /\ subs[i].pc = "call"
          /\ LyricsPayload(subs[i].contents, <<"w">>)

\* the inputs a submission uses
usedInputs == <<activeTab, audioFile, uploadLyricsInput, lyricsInput>>

\* no event changes the inputs while a submission is suspended
C12_InputsFrozenInFlight ==
    [][InFlightSubs # {} => usedInputs' = usedInputs]_vars

\* C12: the inputs a submission uses are read once, when submit is clicked,
\* and no user event changes them before the submission's cleanup step (see
\* C12_InputsFrozenInFlight); so the request sent is the one the inputs
\* determined when submit was clicked, whatever events occur while the
\* submission is suspended.
C12_PayloadReflectsClick ==
    [][\A i \in SubIds :
         /\ (Sends(i) /\ subs[i].pc = "encode") =>
                subs'[i].contents = subs[i].atClick
         /\ (Sends(i) /\ subs[i].pc = "idle") =>
                subs'[i].contents = LyricsContents(lyricsInput)]_vars

\* invocation i returns from rendering the well-formed critique c
Renders(i, c) ==
    /\ subs[i].pc = "render"
    /\ subs'[i].pc = "done"
    /\ subs[i].critique = c
    /\ c.kind = "object"
    /\ ~RenderCritiqueThrows(c)

MusicalHeading == Static("h2", "Musical Analysis")

\* C13: a decoded response that has a lyricalAnalysis while isInstrumental is
\* true, or a musicalAnalysis in answer to a lyrics-only submission (no audio
\* was sent), does not make the submission fail, and the rendered views omit
\* the section that should not be there.
C13_InconsistencyMasked ==
    [][\A i \in SubIds : \A c \in CritiqueObjects :
         Renders(i, c) =>
            /\ (c.isInstrumental /\ Present(c.lyricalAnalysis)) =>
                   /\ lastDone' = "rendered"
                   /\ \A f \in Range(resultText') : f.tag \notin ScorecardTags
                   /\ summaryHidden'
            /\ (Present(c.musicalAnalysis) /\ subs[i].file = NoFile) =>
                   /\ lastDone' = "rendered"
                   /\ MusicalHeading \notin Range(resultText')
                   /\ \A f \in Range(resultText') : f.tag # "markdown"]_vars

\* the instrumental half of C13 alone
InstrumentalLyricsMasked ==
    [][\A i \in SubIds : \A c \in CritiqueObjects :
         (Renders(i, c) /\ c.isInstrumental /\ Present(c.lyricalAnalysis)) =>
            /\ lastDone' = "rendered"
            /\ \A f \in Range(resultText') : f.tag \notin ScorecardTags
            /\ summaryHidden']_vars

====
